---- MODULE Spec2Model ----
(***************************************************************************)
(* A state-machine model of gasrs: the View of src/src/view.rs (graphics   *)
(* context, texture cache, stored dimensions) and the two entry points of  *)
(* src/src/main.rs (native: tokio main; browser: spawn_local task plus the *)
(* animation-frame callback chain).                                        *)
(*                                                                         *)
(* Two specifications share the variables and the View's operations:       *)
(*   Spec      the program: main on either target, step by step;           *)
(*   SpecView  a caller holding one View and calling its public methods in *)
(*             any order (the methods' contracts).                         *)
(* FairSpec is Spec with the fairness the executors give the program.      *)
(*                                                                         *)
(* Numbers are fixed point: colours and radians in thousandths.            *)
(***************************************************************************)
EXTENDS Integers, Sequences, FiniteSets, TLC

VARIABLES
    target,      \* "native" | "wasm": the cfg(target_arch) the build was made for
    pc,          \* position of the one task that drives the View
    ret,         \* where the load_texture in flight returns to
    arg,         \* the identifier of the load_texture in flight (0: none)
    textures,    \* View.textures: identifier -> texture handle
    width,       \* View.width
    height,      \* View.height
    viewCtx,     \* the graphics context the View owns (0: View not constructed)
    current,     \* native: the context current on the thread (0: none)
    backing,     \* window inner size (native) / canvas width, height (wasm)
    pendingSize, \* native: a request_inner_size not yet answered (<<>>: none)
    viewport,    \* GL viewport <<w, h>> (<<>>: never set)
    bound,       \* GL TEXTURE_2D binding (0: none)
    gpu,         \* GL texture objects: handle -> parameters and image size
    nextTex,     \* the next unused GL texture name
    clearColor,  \* GL clear colour <<r, g, b, a>>, thousandths
    colorBuf,    \* what the colour buffer was last cleared to (<<>>: never)
    now,         \* the clock, milliseconds since start
    rafPending,  \* wasm: animation-frame registrations not yet run
    closed,      \* wasm: the page was unloaded
    uploads,     \* history: identifier -> number of upload_texture runs for it
    fetches,     \* history: identifier -> number of fetches issued for it
    everBound,   \* history: bind_texture was called
    everDrawn,   \* history: render_frame was called
    frameBit,    \* history: flips on every render_frame call
    failed,      \* history: the expect() that panicked ("none": none did)
    lastOp       \* history: the last View operation that ran

viewVars == <<textures, width, height, viewCtx>>
glVars   == <<current, viewport, bound, gpu, nextTex, clearColor, colorBuf>>
platVars == <<backing, pendingSize>>
histVars == <<uploads, fetches, everBound, everDrawn, frameBit, failed, lastOp>>
ctlVars  == <<target, pc, ret, arg, now, rafPending, closed>>
vars     == <<ctlVars, viewVars, glVars, platVars, histVars>>

-----------------------------------------------------------------------------
\* Bounds of the model.

NumIds == 2
MaxTicks == 4
TickMs == 1571

\* Program constants.

InitWidth == 800
InitHeight == 600
MsPerSec == 1000

Targets == {"native", "wasm"}
Ids == 1 .. NumIds
\* main.rs:32: the one identifier the program loads.
CreditCard == 1
\* Sizes a caller may pass; 0 is a legal u32.
Sizes == {<<InitWidth, InitHeight>>, <<1024, 768>>, <<0, InitHeight>>}
\* Elapsed times a caller may pass, and the readings of the clock.
Times == {k * TickMs : k \in 0 .. MaxTicks}
\* Image sizes the codec may report.
ImageSizes == {<<126, 80>>}

NoOp == [op |-> "none", id |-> 0, hit |-> FALSE, ctx |-> 0]

-----------------------------------------------------------------------------
\* f64::sin and f64::cos, in thousandths of a radian and thousandths of a unit.

Unit == 1000
HalfPi == 1571
Pi == 3142
ThreeHalfPi == 4712
TwoPi == 6283

Mul(a, b) == (a * b) \div Unit

\* sin on [0, pi/2]: y - y^3/3! + y^5/5! - y^7/7!
SinQ(y) ==
    LET y2 == Mul(y, y)
        y3 == Mul(y2, y)
        y5 == Mul(y3, y2)
        y7 == Mul(y5, y2)
    IN  y - (y3 \div 6) + (y5 \div 120) - (y7 \div 5040)

\* cos on [0, pi/2]: 1 - y^2/2! + y^4/4! - y^6/6! + y^8/8!
CosQ(y) ==
    LET y2 == Mul(y, y)
        y4 == Mul(y2, y2)
        y6 == Mul(y4, y2)
        y8 == Mul(y6, y2)
    IN  Unit - (y2 \div 2) + (y4 \div 24) - (y6 \div 720) + (y8 \div 40320)

Clamp(v) == IF v > Unit THEN Unit ELSE IF v < -Unit THEN -Unit ELSE v

Sin(x) ==
    LET y == x % TwoPi
    IN  Clamp(IF y <= HalfPi THEN SinQ(y)
              ELSE IF y <= Pi THEN SinQ(Pi - y)
              ELSE IF y <= ThreeHalfPi THEN -SinQ(y - Pi)
              ELSE -SinQ(TwoPi - y))

Cos(x) ==
    LET y == x % TwoPi
    IN  Clamp(IF y <= HalfPi THEN CosQ(y)
              ELSE IF y <= Pi THEN -CosQ(Pi - y)
              ELSE IF y <= ThreeHalfPi THEN -CosQ(y - Pi)
              ELSE CosQ(TwoPi - y))

\* view.rs:327: time_ms / 1000.0, as thousandths of a second.
TimeSec(time_ms) == (time_ms * Unit) \div MsPerSec

\* x * 0.5 + 0.5
HalfPlusHalf(x) == (x * 5) \div 10 + 500

FrameColorSwapped(time_ms) ==
    <<HalfPlusHalf(Cos(TimeSec(time_ms))), HalfPlusHalf(Sin(TimeSec(time_ms))), 500, Unit>>

\* view.rs:329-334: the colour render_frame passes to clear_color.
FrameColor(time_ms) ==
    <<HalfPlusHalf(Sin(TimeSec(time_ms))), HalfPlusHalf(Cos(TimeSec(time_ms))), 500, Unit>>

-----------------------------------------------------------------------------
\* The graphics API.

\* The context a GL call acts on: natively the thread's current context (the
\* function table of view.rs:108-113 is not tied to a context); in the browser
\* the WebGL2 context the table wraps (view.rs:190).
GlCtx == IF target = "native" THEN current ELSE viewCtx

\* view.rs:281-312: what upload_texture sets on the texture it has bound.
TexObject(img) ==
    [minFilter |-> "LINEAR", magFilter |-> "LINEAR",
     wrapS |-> "CLAMP_TO_EDGE", wrapT |-> "CLAMP_TO_EDGE",
     w |-> img[1], h |-> img[2]]

\* view.rs:278: create_texture hands out a name not in use.
CreateTexture == nextTex

InsertTextureOnly(cache, path, texture) == path :> texture

\* view.rs:241: HashMap::insert.
InsertTexture(cache, path, texture) == (path :> texture) @@ cache

ContainsKeyNever(path) == FALSE

\* view.rs:230: self.textures.contains_key(path).
ContainsKey(path) == path \in DOMAIN textures

-----------------------------------------------------------------------------
\* View::new.  The callers set the control variables.

MakeCurrentSkipped(ctx) == current

\* view.rs:105: not_current_gl_context.make_current(&surface); the browser
\* has no current context to set.
MakeCurrent(ctx) == IF target = "native" THEN ctx ELSE current

\* view.rs:95-96: NonZeroU32::new(..).unwrap() panics on a zero dimension.
NewPanics(w, h) == target = "native" /\ (w = 0 \/ h = 0)

\* view.rs:59-131 (native), 134-198 (wasm32).
ViewNew(w, h) ==
    /\ ~NewPanics(w, h)
    /\ viewCtx' = viewCtx + 1  \* view.rs:85-90: every call creates a context of its own
    /\ current' = MakeCurrent(viewCtx + 1)
    /\ backing' = <<w, h>>
    /\ viewport' = <<w, h>>  \* view.rs:116; a WebGL context starts with its canvas's size
    /\ textures' = <<>>
    /\ width' = w
    /\ height' = h
    /\ lastOp' = [op |-> "new", id |-> 0, hit |-> FALSE, ctx |-> 0]
    /\ UNCHANGED <<pendingSize, bound, gpu, nextTex, clearColor, colorBuf>>
    /\ UNCHANGED <<uploads, fetches, everBound, everDrawn, frameBit, failed>>

PanicRetried(why) ==
    /\ pc' = IF pc \in {"fetch", "bytes"} THEN "fetch" ELSE "panicked"
    /\ failed' = why
    /\ UNCHANGED <<target, ret, arg, now, rafPending, closed>>
    /\ UNCHANGED <<viewVars, glVars, platVars>>
    /\ UNCHANGED <<uploads, fetches, everBound, everDrawn, frameBit, lastOp>>

\* A panic: the task stops where it is.
Panic(why) ==
    /\ pc' = "panicked"
    /\ failed' = why
    /\ UNCHANGED <<target, ret, arg, now, rafPending, closed>>
    /\ UNCHANGED <<viewVars, glVars, platVars>>
    /\ UNCHANGED <<uploads, fetches, everBound, everDrawn, frameBit, lastOp>>

-----------------------------------------------------------------------------
\* View::resize.

\* view.rs:207-208: Window::request_inner_size asks the window system: it
\* applies the size at once, refuses it (the size stays), or answers later.
RequestInnerSize(w, h) ==
    \/ backing' = <<w, h>> /\ pendingSize' = <<>>
    \/ backing' = backing /\ pendingSize' = <<>>
    \/ backing' = backing /\ pendingSize' = <<w, h>>

\* view.rs:222-223: canvas.set_width, canvas.set_height.
SetCanvasSize(w, h) == backing' = <<w, h>> /\ pendingSize' = pendingSize

\* view.rs:201-225.
Resize(w, h) ==
    /\ width' = w
    /\ height' = h
    /\ IF target = "native" THEN RequestInnerSize(w, h) ELSE SetCanvasSize(w, h)
    /\ lastOp' = [op |-> "resize", id |-> 0, hit |-> FALSE, ctx |-> GlCtx]
    /\ UNCHANGED <<textures, viewCtx, glVars>>
    /\ UNCHANGED <<uploads, fetches, everBound, everDrawn, frameBit, failed>>

-----------------------------------------------------------------------------
\* View::load_texture, one action per stretch between awaits.

\* view.rs:229-234 (246-253): the cache check, and on a miss the fetch is
\* issued and the call suspends; r is where the caller goes on.
LoadTexture(path, r) ==
    /\ lastOp' = [op |-> "load", id |-> path, hit |-> ContainsKey(path), ctx |-> GlCtx]
    /\ IF ContainsKey(path)
       THEN /\ pc' = r
            /\ UNCHANGED <<ret, arg, fetches>>
       ELSE /\ pc' = "fetch"
            /\ ret' = r
            /\ arg' = path
            /\ fetches' = [fetches EXCEPT ![path] = @ + 1]
    /\ UNCHANGED <<target, now, rafPending, closed>>
    /\ UNCHANGED <<viewVars, glVars, platVars>>
    /\ UNCHANGED <<uploads, everBound, everDrawn, frameBit, failed>>

UploadTextureRebinds(path, img) ==
    /\ gpu' = (CreateTexture :> TexObject(img)) @@ gpu
    /\ bound' = bound
    /\ nextTex' = nextTex + 1
    /\ uploads' = [uploads EXCEPT ![path] = @ + 1]
    /\ UNCHANGED <<current, viewport, clearColor, colorBuf>>

\* view.rs:276-316: create, bind, set parameters, upload the pixels.
UploadTexture(path, img) ==
    /\ gpu' = (CreateTexture :> TexObject(img)) @@ gpu
    /\ bound' = CreateTexture
    /\ nextTex' = nextTex + 1
    /\ uploads' = [uploads EXCEPT ![path] = @ + 1]
    /\ UNCHANGED <<current, viewport, clearColor, colorBuf>>

\* view.rs:234 (251-253): the response arrived; the body is awaited next.
FetchOk ==
    /\ pc = "fetch"
    /\ ~closed
    /\ pc' = "bytes"
    /\ UNCHANGED <<target, ret, arg, now, rafPending, closed>>
    /\ UNCHANGED <<viewVars, glVars, platVars, histVars>>

\* view.rs:234: expect("Failed to fetch image").
FetchFail == pc = "fetch" /\ ~closed /\ Panic("fetch")

\* view.rs:235 (257-259): expect("Failed to read image bytes").
BytesFail == pc = "bytes" /\ ~closed /\ Panic("bytes")

\* view.rs:237 (262): expect("Failed to decode image").
DecodeFail == pc = "bytes" /\ ~closed /\ Panic("decode")

\* view.rs:278: expect("Failed to create texture").
CreateFail == pc = "bytes" /\ ~closed /\ Panic("create")

\* view.rs:235-242 (257-268): the body arrived, it decodes, the texture is
\* uploaded and cached, and the call returns.
LoadFinish ==
    /\ pc = "bytes"
    /\ ~closed
    /\ \E img \in ImageSizes : UploadTexture(arg, img)
    /\ textures' = InsertTexture(textures, arg, CreateTexture)
    /\ lastOp' = [op |-> "upload", id |-> arg, hit |-> FALSE, ctx |-> GlCtx]
    /\ pc' = ret
    /\ arg' = 0
    /\ UNCHANGED <<target, ret, now, rafPending, closed>>
    /\ UNCHANGED <<width, height, viewCtx, platVars>>
    /\ UNCHANGED <<fetches, everBound, everDrawn, frameBit, failed>>

-----------------------------------------------------------------------------
\* View::bind_texture and View::render_frame.

BindTextureOrNone(path) ==
    /\ bound' = IF path \in DOMAIN textures THEN textures[path] ELSE 0
    /\ everBound' = TRUE
    /\ lastOp' = [op |-> "bind", id |-> path, hit |-> path \in DOMAIN textures, ctx |-> GlCtx]
    /\ UNCHANGED <<viewVars, platVars>>
    /\ UNCHANGED <<current, viewport, gpu, nextTex, clearColor, colorBuf>>
    /\ UNCHANGED <<uploads, fetches, everDrawn, frameBit, failed>>

\* view.rs:318-324.
BindTexture(path) ==
    /\ bound' = IF path \in DOMAIN textures THEN textures[path] ELSE bound
    /\ everBound' = TRUE
    /\ lastOp' = [op |-> "bind", id |-> path, hit |-> path \in DOMAIN textures, ctx |-> GlCtx]
    /\ UNCHANGED <<viewVars, platVars>>
    /\ UNCHANGED <<current, viewport, gpu, nextTex, clearColor, colorBuf>>
    /\ UNCHANGED <<uploads, fetches, everDrawn, frameBit, failed>>

RenderFrameUnbinds(time_ms) ==
    /\ clearColor' = FrameColor(time_ms)
    /\ colorBuf' = clearColor'
    /\ bound' = 0
    /\ everDrawn' = TRUE
    /\ frameBit' = 1 - frameBit
    /\ lastOp' = [op |-> "render", id |-> 0, hit |-> FALSE, ctx |-> GlCtx]
    /\ UNCHANGED <<viewVars, platVars>>
    /\ UNCHANGED <<current, viewport, gpu, nextTex>>
    /\ UNCHANGED <<uploads, fetches, everBound, failed>>

\* view.rs:326-337.
RenderFrame(time_ms) ==
    /\ clearColor' = FrameColor(time_ms)
    /\ colorBuf' = clearColor'
    /\ everDrawn' = TRUE
    /\ frameBit' = 1 - frameBit
    /\ lastOp' = [op |-> "render", id |-> 0, hit |-> FALSE, ctx |-> GlCtx]
    /\ UNCHANGED <<viewVars, platVars>>
    /\ UNCHANGED <<current, viewport, bound, gpu, nextTex>>
    /\ UNCHANGED <<uploads, fetches, everBound, failed>>

-----------------------------------------------------------------------------
\* The process before anything ran.

Blank(start) ==
    /\ target \in Targets
    /\ pc = start
    /\ ret = "none"
    /\ arg = 0
    /\ textures = <<>>
    /\ width = 0
    /\ height = 0
    /\ viewCtx = 0
    /\ current = 0
    /\ backing = <<>>
    /\ pendingSize = <<>>
    /\ viewport = <<>>
    /\ bound = 0
    /\ gpu = <<>>
    /\ nextTex = 1
    /\ clearColor = <<0, 0, 0, 0>>
    /\ colorBuf = <<>>
    /\ now = 0
    /\ rafPending = 0
    /\ closed = FALSE
    /\ uploads = [i \in Ids |-> 0]
    /\ fetches = [i \in Ids |-> 0]
    /\ everBound = FALSE
    /\ everDrawn = FALSE
    /\ frameBit = 0
    /\ failed = "none"
    /\ lastOp = NoOp

\* Positions at which the task is no more.
Stopped == pc \in {"exited", "panicked"}

-----------------------------------------------------------------------------
\* The program: src/src/main.rs.

Init == Blank("main")

\* main.rs:43 (native), main.rs:99 (wasm32): View::new(800, 600).
MainNew ==
    /\ pc = "main"
    /\ ~closed
    /\ ViewNew(InitWidth, InitHeight)
    /\ pc' = "setup"
    /\ UNCHANGED <<target, ret, arg, now, rafPending, closed>>

\* view.rs:62-105 (unwrap, expect), view.rs:137-186 (panic!): no event loop,
\* window, canvas or context is to be had.
MainNewFail == pc = "main" /\ ~closed /\ Panic("env")

SetupLoadNotAwaited ==
    /\ pc = "setup"
    /\ ~closed
    /\ pc' = "setup_bind"
    /\ UNCHANGED <<target, ret, arg, now, rafPending, closed>>
    /\ UNCHANGED <<viewVars, glVars, platVars, histVars>>

\* main.rs:33: view.load_texture(creditCard).await
SetupLoad == pc = "setup" /\ ~closed /\ LoadTexture(CreditCard, "setup_bind")

\* main.rs:34: view.bind_texture(creditCard); setup returns.
SetupBind ==
    /\ pc = "setup_bind"
    /\ ~closed
    /\ BindTexture(CreditCard)
    /\ pc' = "after_setup"
    /\ UNCHANGED <<target, ret, arg, now, rafPending, closed>>

\* main.rs:46-90: the window handle is cloned, the start time taken, MyApp and
\* its handlers are declared, and main returns: no event loop is run.
NativeMainReturns ==
    /\ target = "native"
    /\ pc = "after_setup"
    /\ pc' = "exited"
    /\ UNCHANGED <<target, ret, arg, now, rafPending, closed>>
    /\ UNCHANGED <<viewVars, glVars, platVars, histVars>>

\* main.rs:134-140: request_animation_frame.
RequestAnimationFrame == rafPending' = rafPending + 1

WebStartLoopNewView ==
    /\ target = "wasm"
    /\ pc = "after_setup"
    /\ ~closed
    /\ ViewNew(InitWidth, InitHeight)
    /\ RequestAnimationFrame
    /\ pc' = "loop"
    /\ UNCHANGED <<target, ret, arg, now, closed>>

\* main.rs:102-129: the performance object is taken, the closure is built and
\* stored, the first frame is requested, and the task ends.
WebStartLoop ==
    /\ target = "wasm"
    /\ pc = "after_setup"
    /\ ~closed
    /\ RequestAnimationFrame
    /\ pc' = "loop"
    /\ UNCHANGED <<target, ret, arg, now, closed>>
    /\ UNCHANGED <<viewVars, glVars, platVars, histVars>>

\* main.rs:102-105: expect("Performance API missing").
WebNoPerformance ==
    /\ target = "wasm"
    /\ pc = "after_setup"
    /\ ~closed
    /\ Panic("env")

ReregisteredNever(pending) == pending

\* main.rs:119-121: the stored closure is there (set at main.rs:126 before the
\* first frame is requested), so the callback requests the next frame.
Reregistered(pending) == pending + 1

\* main.rs:115-122: the animation-frame callback: one frame at the clock's
\* reading, then the callback registers itself again.
RenderLoop ==
    /\ target = "wasm"
    /\ pc = "loop"
    /\ ~closed
    /\ rafPending > 0
    /\ RenderFrame(now)
    /\ rafPending' = Reregistered(rafPending - 1)
    /\ UNCHANGED <<target, pc, ret, arg, now, closed>>

\* The browser unloads the page: nothing of the script runs any more.
PageUnload ==
    /\ target = "wasm"
    /\ ~closed
    /\ closed' = TRUE
    /\ UNCHANGED <<target, pc, ret, arg, now, rafPending>>
    /\ UNCHANGED <<viewVars, glVars, platVars, histVars>>

\* main.rs:116 (performance.now()): time passes while the process lives.
Tick ==
    /\ ~Stopped
    /\ ~closed
    /\ now < MaxTicks * TickMs
    /\ now' = now + TickMs
    /\ UNCHANGED <<target, pc, ret, arg, rafPending, closed>>
    /\ UNCHANGED <<viewVars, glVars, platVars, histVars>>

\* main.rs:75-81: the window system gives the window another size (the user
\* drags its border); the Resized event this raises is handled by no code, and
\* nothing else writes View.width or View.height.
WindowSystemResizes ==
    /\ target = "native"
    /\ viewCtx # 0
    /\ ~Stopped
    /\ \E size \in Sizes :
        /\ size[1] > 0
        /\ size[2] > 0
        /\ size # backing
        /\ backing' = size
    /\ UNCHANGED <<pendingSize, ctlVars, viewVars, glVars, histVars>>

Next ==
    \/ MainNew
    \/ MainNewFail
    \/ SetupLoad
    \/ FetchOk
    \/ FetchFail
    \/ BytesFail
    \/ DecodeFail
    \/ CreateFail
    \/ LoadFinish
    \/ SetupBind
    \/ NativeMainReturns
    \/ WebStartLoop
    \/ WebNoPerformance
    \/ RenderLoop
    \/ PageUnload
    \/ WindowSystemResizes
    \/ Tick

Spec == Init /\ [][Next]_vars

\* What the executors guarantee: a task that can run is run (tokio's block_on,
\* the browser's task queue), and a registered animation-frame callback is
\* called while the page is shown.  Nothing obliges a fetch to answer, the
\* clock to be read or the page to be unloaded.
Progress ==
    \/ MainNew
    \/ SetupLoad
    \/ SetupBind
    \/ NativeMainReturns
    \/ WebStartLoop
    \/ RenderLoop

FairSpec == Spec /\ WF_vars(Progress)

-----------------------------------------------------------------------------
\* A caller with one View: the public methods in any order.

InitView == Blank("start")

ApiNew(size) ==
    /\ pc = "start"
    /\ ViewNew(size[1], size[2])
    /\ pc' = "idle"
    /\ UNCHANGED <<target, ret, arg, now, rafPending, closed>>

ApiNewFail == pc = "start" /\ Panic("env")

ApiLoad(path) == pc = "idle" /\ LoadTexture(path, "idle")

ApiBind(path) ==
    /\ pc = "idle"
    /\ BindTexture(path)
    /\ UNCHANGED ctlVars

ApiRender(time_ms) ==
    /\ pc = "idle"
    /\ RenderFrame(time_ms)
    /\ UNCHANGED ctlVars

ApiResize(size) ==
    /\ pc = "idle"
    /\ Resize(size[1], size[2])
    /\ UNCHANGED ctlVars

\* view.rs:207-208: the window system answers a request it had deferred, by
\* applying the size or by dropping the request.
PlatformAnswers ==
    /\ pendingSize # <<>>
    /\ ~Stopped
    /\ backing' \in {pendingSize, backing}
    /\ pendingSize' = <<>>
    /\ UNCHANGED <<ctlVars, viewVars, glVars, histVars>>

NextView ==
    \/ \E size \in Sizes : ApiNew(size)
    \/ ApiNewFail
    \/ \E path \in Ids : ApiLoad(path)
    \/ FetchOk
    \/ FetchFail
    \/ BytesFail
    \/ DecodeFail
    \/ CreateFail
    \/ LoadFinish
    \/ \E path \in Ids : ApiBind(path)
    \/ \E time_ms \in Times : ApiRender(time_ms)
    \/ \E size \in Sizes : ApiResize(size)
    \/ PlatformAnswers
    \/ WindowSystemResizes

SpecView == InitView /\ [][NextView]_vars

-----------------------------------------------------------------------------
\* Properties.

LoadFailed == failed \in {"fetch", "bytes", "decode", "create"}
SetupDone == pc \in {"after_setup", "loop", "exited"}
Abs(v) == IF v < 0 THEN -v ELSE v

\* C1: every identifier is uploaded at most once, every cache entry stands for
\* one upload and one texture object, and a load_texture call for a cached
\* identifier returns at once with nothing fetched, uploaded or changed.
C1_UploadedAtMostOnce ==
    /\ [](\A id \in Ids :
            /\ uploads[id] <= 1
            /\ fetches[id] <= 1
            /\ (id \in DOMAIN textures <=> uploads[id] = 1))
    /\ [](Cardinality(DOMAIN gpu) = Cardinality(DOMAIN textures))
    /\ [][\A id \in Ids :
            (ApiLoad(id) /\ id \in DOMAIN textures) =>
                /\ pc' = "idle"
                /\ UNCHANGED <<textures, gpu, bound, nextTex, uploads, fetches>>]_vars

\* C1 witness: a load_texture call has just hit the cache.
C1_Witness ==
    /\ lastOp.op = "load"
    /\ lastOp.hit
    /\ uploads[lastOp.id] = 1
    /\ pc = "idle"

\* C2: once setup has completed and while no close signal was observed (and
\* nothing panicked), another frame is always eventually rendered.
C2_DriveLoopRuns ==
    \A b \in {0, 1} :
        [](SetupDone /\ ~closed /\ failed = "none" /\ frameBit = b
            => <>(closed \/ failed # "none" \/ frameBit # b))

\* C3: whenever bind_texture or render_frame has been called, the texture of
\* setup is uploaded and in the cache of the View: setup's load came first.
C3_SetupBeforeLoop ==
    (everBound \/ everDrawn) =>
        /\ CreditCard \in DOMAIN textures
        /\ textures[CreditCard] \in DOMAIN gpu
        /\ uploads[CreditCard] = 1
        /\ viewCtx # 0

\* C3 witness: the loop has drawn a frame after setup bound the texture.
C3_Witness ==
    /\ everDrawn
    /\ everBound
    /\ rafPending = 1
    /\ bound = textures[CreditCard]

\* C5: a failed fetch, decode or texture creation stops the program there:
\* nothing is cached or uploaded, the fetch was issued once, nothing was bound
\* or drawn, no frame is requested, and the program takes no step afterwards.
C5_LoadFailureIsFatal ==
    /\ [](LoadFailed =>
            /\ pc = "panicked"
            /\ textures = <<>>
            /\ gpu = <<>>
            /\ uploads[CreditCard] = 0
            /\ fetches[CreditCard] = 1
            /\ ~everBound
            /\ ~everDrawn
            /\ rafPending = 0)
    /\ [][LoadFailed =>
            UNCHANGED <<pc, ret, arg, rafPending, viewVars, glVars, platVars, histVars>>]_vars

\* C5 witness: the texture creation failed, after the fetch and the decode.
C5_Witness ==
    /\ failed = "create"
    /\ pc = "panicked"
    /\ fetches[CreditCard] = 1

\* C6: bind_texture for an identifier that is not cached raises nothing and
\* leaves the bound texture, the cache and the dimensions as they were.
C6_BindMissIsNoOp ==
    [][\A id \in Ids :
        (ApiBind(id) /\ id \notin DOMAIN textures) =>
            /\ UNCHANGED <<bound, textures, gpu, width, height, backing>>
            /\ pc' = "idle"
            /\ failed' = "none"]_vars

\* C6 witness: a bind_texture call missed while a texture was bound.
C6_Witness ==
    /\ lastOp.op = "bind"
    /\ ~lastOp.hit
    /\ bound # 0
    /\ pc = "idle"

\* C7: every loaded identifier has its own cache entry, distinct identifiers
\* hold distinct texture handles, and bind_texture leaves the cache unchanged.
C7_CacheIsolation ==
    /\ [](\A a \in Ids : uploads[a] >= 1 => a \in DOMAIN textures)
    /\ [](\A a, b \in DOMAIN textures :
            /\ textures[a] \in DOMAIN gpu
            /\ (a # b => textures[a] # textures[b]))
    /\ [][\A id \in Ids : ApiBind(id) => UNCHANGED <<textures, gpu>>]_vars

\* C7 witness: two identifiers are cached and one of them has just been bound.
C7_Witness ==
    /\ Cardinality(DOMAIN textures) = 2
    /\ lastOp.op = "bind"
    /\ lastOp.hit
    /\ bound = textures[lastOp.id]

\* C8: after resize(w, h) the stored dimensions are (w, h) and the backing
\* store (window inner size, canvas attributes) reports (w, h).
C8_ResizePropagates ==
    [][\A size \in Sizes :
        ApiResize(size) =>
            /\ width' = size[1]
            /\ height' = size[2]
            /\ backing' = size]_vars

\* C9: render_frame(t) sets the clear colour to (sin(t/1000)*0.5+0.5,
\* cos(t/1000)*0.5+0.5, 0.5, 1.0) and clears the colour buffer to it, whatever
\* was loaded or bound; t = 0 gives (0.5, 1.0, 0.5, 1.0), t = 3142 gives about
\* (0.5, 0.0, 0.5, 1.0).
C9_FrameColor ==
    [][\A t \in Times :
        ApiRender(t) =>
            /\ clearColor' = <<(Sin((t * 1000) \div 1000) * 5) \div 10 + 500,
                               (Cos((t * 1000) \div 1000) * 5) \div 10 + 500,
                               500, 1000>>
            /\ colorBuf' = clearColor'
            /\ (t = 0 => clearColor' = <<500, 1000, 500, 1000>>)
            /\ (t = 3142 => /\ Abs(clearColor'[1] - 500) <= 2
                            /\ clearColor'[2] <= 2
                            /\ clearColor'[2] >= 0)
            /\ UNCHANGED <<textures, bound>>]_vars

\* C9 witness: create(800, 600), load_texture, bind_texture, render_frame(0).
C9_Witness ==
    /\ lastOp.op = "render"
    /\ clearColor = <<500, 1000, 500, 1000>>
    /\ colorBuf = clearColor
    /\ CreditCard \in DOMAIN textures
    /\ bound = textures[CreditCard]
    /\ <<width, height>> = <<InitWidth, InitHeight>>

\* C10: an upload, a bind_texture or a render_frame acts on the context of
\* the View it was called on: that context is the one bound when it runs.
C10_ContextIsCurrent ==
    lastOp.op \in {"upload", "bind", "render"} =>
        /\ viewCtx # 0
        /\ lastOp.ctx = viewCtx

\* C10 witness: a frame was rendered natively, where the context must have
\* been made current.
C10_Witness ==
    /\ target = "native"
    /\ lastOp.op = "render"
    /\ lastOp.ctx = 1
    /\ everBound
    /\ uploads[CreditCard] = 1

\* C11: in every state of a constructed View the stored (width, height) is
\* the size the backing store (window inner size, canvas attributes) reports.
C11_DimensionsInSync ==
    viewCtx # 0 => <<width, height>> = backing

\* C12: a cache entry, once made, stays with the same handle in every later
\* state: no operation removes or replaces it.
C12_CacheMonotonic ==
    [][\A id \in DOMAIN textures :
        /\ id \in DOMAIN textures'
        /\ textures'[id] = textures[id]]_vars

\* C12 witness: both identifiers are cached, and after binds and frames a
\* further load_texture call has hit the cache.
C12_Witness ==
    /\ Cardinality(DOMAIN textures) = 2
    /\ everBound
    /\ everDrawn
    /\ lastOp.op = "load"
    /\ lastOp.hit
    /\ <<width, height>> # <<InitWidth, InitHeight>>

\* C13: a run constructs one View with one context, once, before setup; the
\* View the loop draws with is that View, holding the texture setup loaded.
C13_OneView ==
    /\ [](viewCtx <= 1)
    /\ [](pc \in {"setup", "fetch", "bytes", "setup_bind", "after_setup", "loop", "exited"}
            => viewCtx = 1)
    /\ [](everDrawn =>
            /\ viewCtx = 1
            /\ lastOp.ctx = 1
            /\ CreditCard \in DOMAIN textures
            /\ uploads[CreditCard] = 1)
    /\ [][viewCtx' # viewCtx => (pc = "main" /\ viewCtx = 0 /\ viewCtx' = 1)]_vars

\* C13 witness: the browser loop has drawn two frames with the View of setup.
C13_Witness ==
    /\ target = "wasm"
    /\ pc = "loop"
    /\ everDrawn
    /\ frameBit = 0
    /\ viewCtx = 1
    /\ lastOp.op = "render"

\* C14: in the browser, while the page is shown, the running loop has exactly
\* one animation-frame registration pending and none before the loop starts;
\* each callback draws one frame and leaves one registration pending.
C14_OneRegistration ==
    /\ []((pc = "loop" /\ ~closed) => rafPending = 1)
    /\ [](pc # "loop" => rafPending = 0)
    /\ [][RenderLoop => (frameBit' = 1 - frameBit /\ everDrawn' /\ rafPending' = 1)]_vars

\* C14 witness: the callback has run and is registered for the next tick.
C14_Witness ==
    /\ target = "wasm"
    /\ pc = "loop"
    /\ ~closed
    /\ rafPending = 1
    /\ frameBit = 1
    /\ now > 0
    /\ lastOp.op = "render"

\* C16: a load_texture call that misses ends with the texture it created
\* bound in place of the one bound before; the call's start, and a call that
\* hits the cache, leave the bound texture as it was.
C16_LoadLeavesNewTextureBound ==
    [][/\ LoadFinish =>
            /\ bound' = textures'[arg]
            /\ bound' # bound
            /\ bound' \notin DOMAIN gpu
            /\ bound' \in DOMAIN gpu'
       /\ \A id \in Ids : ApiLoad(id) => bound' = bound]_vars

\* C16 witness: bind_texture(a), then load_texture(b) for a new b: b's
\* texture is bound, not a's.
C16_Witness ==
    \E a, b \in Ids :
        /\ a # b
        /\ a \in DOMAIN textures
        /\ everBound
        /\ lastOp.op = "upload"
        /\ lastOp.id = b
        /\ textures[b] > textures[a]
        /\ bound = textures[b]

\* C17: render_frame changes the clear colour and the colour buffer only: the
\* cache, the texture objects, the bound texture, the dimensions, the backing
\* store, the viewport and the contexts are as before the call.
C17_RenderFrameFrame ==
    [][\A t \in Times :
        ApiRender(t) =>
            /\ UNCHANGED <<textures, width, height, viewCtx>>
            /\ UNCHANGED <<current, viewport, bound, gpu, nextTex>>
            /\ UNCHANGED <<backing, pendingSize>>
            /\ UNCHANGED <<uploads, fetches, failed, pc>>]_vars

\* C17 witness: a frame was drawn on a resized View with two cached textures,
\* one of them bound.
C17_Witness ==
    /\ lastOp.op = "render"
    /\ Cardinality(DOMAIN textures) = 2
    /\ bound # 0
    /\ everBound
    /\ <<width, height>> = <<1024, 768>>
    /\ frameBit = 0

====
